---- MODULE Spec2Model ----
(***************************************************************************)
(* Socket.IO gateway for collaborative blueprints (server.js).             *)
(*                                                                         *)
(* The gateway keeps no state of its own beyond Socket.IO's room           *)
(* membership; every handler is an async function whose suspension points  *)
(* are the two axios calls (PUT .../points, GET blueprint).  A handler is  *)
(* therefore modelled as one action per synchronous stretch: from the      *)
(* event to the first await, and from each response to the next await or   *)
(* the end.  The Spring backend processes a request at some moment between *)
(* the send and the delivery of the response.                              *)
(***************************************************************************)
EXTENDS Naturals, Sequences, FiniteSets, TLC

\* ------------------------------------------------------------------ bounds
\* Total number of join-room / draw-event events accepted in one run.
MaxReqs == 2
\* Longest author / name of the room-key check.
MaxLen == 2

\* ------------------------------------------------------------------ values
Conns == {"c1", "c2"}

\* JavaScript's undefined (a field absent from the payload).
Undefined == "<undefined>"
\* A payload that is null / undefined itself.
Null == [null |-> TRUE]
NullPayload == Null

\* !v of JavaScript for the values a field takes here.
Falsy(v) == v = Undefined \/ v = ""

\* Document identities of the run.  The first two differ and share a room name.
Docs == {<<"a-b", "c">>, <<"a", "b-c">>, <<"a", "c">>}
Points == {"p1"}

\* { author, name } payloads: null, one field absent or empty, or an identity.
JoinPayloads ==
    {NullPayload, [author |-> Undefined, name |-> "c"], [author |-> "a", name |-> ""]}
        \cup {[author |-> d[1], name |-> d[2]] : d \in Docs}

\* { author, name, point } payloads: an invalid join payload with a point, an
\* identity without point, or an identity with a point.
DrawPayloads ==
    {NullPayload, [author |-> Undefined, name |-> "c", point |-> "p1"],
     [author |-> "a", name |-> "", point |-> "p1"]}
        \cup {[author |-> d[1], name |-> d[2], point |-> Undefined] : d \in Docs}
        \cup {[author |-> d[1], name |-> d[2], point |-> pt] : d \in Docs, pt \in Points}

\* ------------------------------------------------------------------ roomName
roomName(author, name) == "room:" \o author \o "-" \o name

\* The rooms a payload with author and name fields can name.
RoomKeys == {roomName(p.author, p.name) : p \in JoinPayloads \ {NullPayload}}

\* ------------------------------------------------------------------ state
VARIABLES
    conn,      \* conn[c]: "new", "connected" or "closed"
    rooms,     \* rooms[k]: the sockets in Socket.IO room k
    store,     \* store[d]: the points the Spring backend holds for document d
    reqs,      \* reqs[r]: the r-th handler invocation (join-room or draw-event)
    inbox,     \* inbox[c]: what client c has received, in order
    joined,    \* joined[c]: identities c joined and has not left since (history)
    keyIn,     \* room-key check: the two (author, name) pairs
    keyOut     \* room-key check: their room names, once computed

vars == <<conn, rooms, store, reqs, inbox, joined, keyIn, keyOut>>

Reqs == 1..Len(reqs)

Blueprint(d, pts) == [author |-> d[1], name |-> d[2], points |-> pts]

Msg(ev, r, data) == [ev |-> ev, req |-> r, data |-> data]

\* Faulty variant: io.emit, which sends the packet to every open connection.
DeliverEverywhere(box, c, m) ==
    [x \in Conns |-> IF conn[x] = "connected" THEN Append(box[x], m) ELSE box[x]]

\* socket.emit / ack: the packet reaches the client when its connection is open
\* and is dropped otherwise.
Deliver(box, c, m) ==
    IF conn[c] = "connected" THEN [box EXCEPT ![c] = Append(@, m)] ELSE box

RECURSIVE DeliverAll(_, _, _)
DeliverAll(box, cs, m) ==
    IF cs = {} THEN box
    ELSE LET c == CHOOSE x \in cs : TRUE
         IN  DeliverAll(Deliver(box, c, m), cs \ {c}, m)

\* The gateway at a quiet moment: no handler is running.  A client has not
\* connected yet, or is connected and in no room, or is connected and joined
\* HomeDoc's room some time ago.
HomeDoc == <<"a", "c">>

Init ==
    /\ conn \in [Conns -> {"new", "connected"}]
    /\ joined \in [Conns -> {{}, {HomeDoc}}]
    /\ \A c \in Conns : joined[c] # {} => conn[c] = "connected"
    /\ rooms = [k \in RoomKeys |->
                  {c \in Conns : \E d \in joined[c] : roomName(d[1], d[2]) = k}]
    /\ store = [d \in Docs |-> <<>>]
    /\ reqs = <<>>
    /\ inbox = [c \in Conns |-> <<>>]
    /\ keyIn = <<>>
    /\ keyOut = <<>>

\* ------------------------------------------------------------------ handlers
\* One handler invocation: what its closure keeps across the awaits, where it
\* stands, and (history) what it has called, acknowledged and addressed.
\*   pc       "put" / "get": suspended in that call; "done"; "failed"
\*   putRes   "none" until the backend has answered the PUT, then "ok" / "error"
\*   getRes   the same for the GET, body: the GET's response body
\*   roomAt, closedAt   the room's sockets and the closed clients at the broadcast
\*                      (join-room: the room's sockets just before socket.join)
\*   live     whether the caller's connection was open when the handler ended
NewReq(kind, c, p, ack, pc) ==
    [kind |-> kind, conn |-> c, payload |-> p, ack |-> ack, pc |-> pc,
     putRes |-> "none", getRes |-> "none", body |-> Null,
     nPut |-> IF pc = "put" THEN 1 ELSE 0, nGet |-> IF pc = "get" THEN 1 ELSE 0,
     nCast |-> 0, acks |-> <<>>, roomAt |-> {}, closedAt |-> {},
     live |-> pc = "failed"]

NoDoc == <<Undefined, Undefined>>

\* const { author, name } = payload
DocOf(q) == IF q.payload = Null THEN NoDoc ELSE <<q.payload.author, q.payload.name>>

\* if (typeof ack === 'function') ack(x): the reply reaches the client as a packet.
Ack(box, r, c, hasAck, x) ==
    IF hasAck THEN Deliver(box, c, Msg("ack", r, x)) ELSE box

AckLog(log, hasAck, x) == IF hasAck THEN Append(log, x) ELSE log

OkTrue == [ok |-> TRUE]

\* Faulty variant: a refusal is acknowledged as a success.
OkFalseAsTrue(msg) == [ok |-> TRUE]

OkFalse(msg) == [ok |-> FALSE, message |-> msg]

Closed == {c \in Conns : conn[c] = "closed"}

\* ------------------------------------------------------------------ connection
Connect(c) ==
    /\ conn[c] = "new"
    /\ conn' = [conn EXCEPT ![c] = "connected"]
    /\ UNCHANGED <<rooms, store, reqs, inbox, joined, keyIn, keyOut>>

\* Faulty variant: the socket stays in its rooms after it closed.
LeaveAllNot(c) == rooms

\* Socket.IO takes a closing socket out of every room before 'disconnect' fires.
LeaveAll(c) == [k \in RoomKeys |-> rooms[k] \ {c}]

Disconnect(c) ==
    /\ conn[c] = "connected"
    /\ conn' = [conn EXCEPT ![c] = "closed"]
    /\ rooms' = LeaveAll(c)
    /\ joined' = [joined EXCEPT ![c] = {}]
    /\ UNCHANGED <<store, reqs, inbox, keyIn, keyOut>>

\* ------------------------------------------------------------------ fetchBlueprint
\* Faulty variant: the ApiResponse wrapper is returned as it came.
fetchBlueprintWrapped(body) == body

\* res.data && res.data.data ? res.data.data : null, on the response body.
fetchBlueprint(body) == IF body # Null /\ body.data # Null THEN body.data ELSE Null

\* Faulty variant: a failed GET is not noticed.
FetchFailedIgnored(res) == FALSE

\* await fetchBlueprint(...) threw.
FetchFailed(res) == res = "error"

\* ------------------------------------------------------------------ join-room
\* Faulty variant: the name is not checked.
ValidJoinNoName(p) == p # NullPayload /\ ~Falsy(p.author)

ValidJoin(p) == p # NullPayload /\ ~Falsy(p.author) /\ ~Falsy(p.name)

JoinRoom(c, p) ==
    /\ conn[c] = "connected"
    /\ Len(reqs) < MaxReqs
    /\ LET r == Len(reqs) + 1 IN
       IF ~ValidJoin(p)
       THEN /\ inbox' = Deliver(inbox, c,
                   Msg("error", r, [message |-> "join-room: missing author or name"]))
            /\ reqs' = Append(reqs, NewReq("join", c, p, FALSE, "failed"))
            /\ UNCHANGED <<rooms, joined>>
       ELSE /\ rooms' = [rooms EXCEPT ![roomName(p.author, p.name)] = @ \cup {c}]
            /\ joined' = [joined EXCEPT ![c] = @ \cup {<<p.author, p.name>>}]
            /\ reqs' = Append(reqs, [NewReq("join", c, p, FALSE, "get")
                                       EXCEPT !.roomAt = rooms[roomName(p.author, p.name)]])
            /\ UNCHANGED inbox
    /\ UNCHANGED <<conn, store, keyIn, keyOut>>

JoinAfterFetch(r) ==
    /\ r \in Reqs
    /\ reqs[r].kind = "join" /\ reqs[r].pc = "get" /\ reqs[r].getRes # "none"
    /\ LET q == reqs[r] IN
       /\ inbox' =
            IF FetchFailed(q.getRes)
            THEN Deliver(inbox, q.conn, Msg("warning", r,
                     [message |-> "Could not fetch blueprint state from API"]))
            ELSE IF fetchBlueprint(q.body) # Null
            THEN Deliver(inbox, q.conn, Msg("blueprint-update", r, fetchBlueprint(q.body)))
            ELSE inbox
       /\ reqs' = [reqs EXCEPT ![r].pc = "done",
                               ![r].live = conn[q.conn] = "connected"]
    /\ UNCHANGED <<conn, rooms, store, joined, keyIn, keyOut>>

\* ------------------------------------------------------------------ draw-event
\* Faulty variant: the point is not checked.
ValidDrawNoPoint(p) == p # NullPayload /\ ~Falsy(p.author) /\ ~Falsy(p.name)

ValidDraw(p) ==
    p # NullPayload /\ ~Falsy(p.author) /\ ~Falsy(p.name) /\ ~Falsy(p.point)

DrawEvent(c, p, ack) ==
    /\ conn[c] = "connected"
    /\ Len(reqs) < MaxReqs
    /\ LET r == Len(reqs) + 1
           msg == "draw-event: missing author, name or point" IN
       IF ~ValidDraw(p)
       THEN /\ inbox' = Deliver(Ack(inbox, r, c, ack, OkFalse(msg)), c,
                                Msg("error", r, [message |-> msg]))
            /\ reqs' = Append(reqs, [NewReq("draw", c, p, ack, "failed")
                                       EXCEPT !.acks = AckLog(@, ack, OkFalse(msg))])
       ELSE /\ reqs' = Append(reqs, NewReq("draw", c, p, ack, "put"))
            /\ UNCHANGED inbox
    /\ UNCHANGED <<conn, rooms, store, joined, keyIn, keyOut>>

\* Faulty variant: the GET is sent without waiting for the PUT's answer.
PersistNotAwaited(q) == TRUE

\* Faulty variant: a handler resumes only when no PUT of any handler is pending.
PersistSettledAll(q) ==
    /\ q.putRes # "none"
    /\ \A o \in Reqs : reqs[o].pc = "put" => reqs[o].putRes # "none"

\* await persistPoint(...): the handler resumes once the PUT has been answered.
PersistSettled(q) == q.putRes # "none"

\* Faulty variant: a rejected PUT is not noticed.
PersistFailedIgnored(res) == FALSE

\* await persistPoint(...) threw.
PersistFailed(res) == res = "error"

DrawAfterPersist(r) ==
    /\ r \in Reqs
    /\ reqs[r].kind = "draw" /\ reqs[r].pc = "put" /\ PersistSettled(reqs[r])
    /\ LET q == reqs[r]
           msg == "Failed to persist point" IN
       IF PersistFailed(q.putRes)
       THEN /\ inbox' = Deliver(Ack(inbox, r, q.conn, q.ack, OkFalse(msg)), q.conn,
                                Msg("error", r, [message |-> msg]))
            /\ reqs' = [reqs EXCEPT ![r].pc = "failed",
                                    ![r].acks = AckLog(@, q.ack, OkFalse(msg)),
                                    ![r].live = conn[q.conn] = "connected"]
       ELSE /\ reqs' = [reqs EXCEPT ![r].pc = "get", ![r].nGet = @ + 1]
            /\ UNCHANGED inbox
    /\ UNCHANGED <<conn, rooms, store, joined, keyIn, keyOut>>

\* Faulty variant: the broadcast is dropped when the sender has closed.
BroadcastTargetsIfOpen(room, sender) ==
    IF conn[sender] = "connected" THEN rooms[room] ELSE {}

\* Faulty variant: socket.to(room), which leaves the sender out.
BroadcastTargetsOthers(room, sender) == rooms[room] \ {sender}

\* io.to(room): every socket in the room.
BroadcastTargets(room, sender) == rooms[room]

\* Faulty variant: a missing document is broadcast as it is.
NotFoundIgnored(bp) == FALSE

\* !updatedBlueprint
NotFound(bp) == bp = Null

DrawAfterFetch(r) ==
    /\ r \in Reqs
    /\ reqs[r].kind = "draw" /\ reqs[r].pc = "get" /\ reqs[r].getRes # "none"
    /\ LET q == reqs[r]
           room == roomName(q.payload.author, q.payload.name)
           failed == FetchFailed(q.getRes)
           updatedBlueprint == IF failed THEN Null ELSE fetchBlueprint(q.body)
           msg == IF failed THEN "Failed to fetch updated blueprint"
                  ELSE "Blueprint not found after persisting point" IN
       IF failed \/ NotFound(updatedBlueprint)
       THEN /\ inbox' = Deliver(Ack(inbox, r, q.conn, q.ack, OkFalse(msg)), q.conn,
                                Msg("warning", r, [message |-> msg]))
            /\ reqs' = [reqs EXCEPT ![r].pc = "failed",
                                    ![r].acks = AckLog(@, q.ack, OkFalse(msg)),
                                    ![r].live = conn[q.conn] = "connected"]
       ELSE /\ inbox' = Ack(DeliverAll(inbox, BroadcastTargets(room, q.conn),
                                       Msg("blueprint-update", r, updatedBlueprint)),
                            r, q.conn, q.ack, OkTrue)
            /\ reqs' = [reqs EXCEPT ![r].pc = "done", ![r].nCast = @ + 1,
                                    ![r].acks = AckLog(@, q.ack, OkTrue),
                                    ![r].roomAt = rooms[room],
                                    ![r].closedAt = Closed,
                                    ![r].live = conn[q.conn] = "connected"]
    /\ UNCHANGED <<conn, rooms, store, joined, keyIn, keyOut>>

\* ------------------------------------------------------------------ leave-room
\* Faulty variant: leave-room that does not take the socket out of the room.
LeaveRoomKept(c, p) ==
    /\ conn[c] = "connected"
    /\ IF ~ValidJoin(p)
       THEN UNCHANGED joined
       ELSE joined' = [joined EXCEPT ![c] = @ \ {<<p.author, p.name>>}]
    /\ UNCHANGED <<conn, rooms, store, reqs, inbox, keyIn, keyOut>>

LeaveRoom(c, p) ==
    /\ conn[c] = "connected"
    /\ IF ~ValidJoin(p)
       THEN UNCHANGED <<rooms, joined>>
       ELSE /\ rooms' = [rooms EXCEPT ![roomName(p.author, p.name)] = @ \ {c}]
            /\ joined' = [joined EXCEPT ![c] = @ \ {<<p.author, p.name>>}]
    /\ UNCHANGED <<conn, store, reqs, inbox, keyIn, keyOut>>

\* ------------------------------------------------------------------ Spring backend
\* PUT /api/v1/blueprints/{author}/{name}/points, as the gateway sees it:
\*   "ok"    the point is appended and the 2xx arrives
\*   "error" the call is rejected or never arrives; nothing is stored
\*   "lost"  the point is appended but the answer misses the 5 s timeout
\* A stored point is tagged with the request that sent it (history).
PutOutcomes == {"ok", "error", "lost"}

\* Faulty variant: a PUT that was not answered with 2xx is sent again.
PutInFlightRetried(q) == q.nPut > 0 /\ q.putRes # "ok"

\* persistPoint sends one PUT, which the backend serves once.
PutInFlight(q) == q.nPut > 0 /\ q.putRes = "none"

SpringPut(r, out) ==
    /\ r \in Reqs
    /\ PutInFlight(reqs[r])
    /\ store' = IF out = "error" THEN store
                ELSE [store EXCEPT ![DocOf(reqs[r])] =
                         Append(@, [pt |-> reqs[r].payload.point, by |-> r])]
    /\ reqs' = [reqs EXCEPT ![r].putRes = IF out = "ok" THEN "ok" ELSE "error"]
    /\ UNCHANGED <<conn, rooms, inbox, joined, keyIn, keyOut>>

\* GET /api/v1/blueprints/{author}/{name}: an error, or the ApiResponse wrapper
\* { status, message, data, timestamp } whose data is the blueprint or null.
GetOutcomes == {"data", "nodata", "error"}

SpringGet(r, out) ==
    /\ r \in Reqs
    /\ reqs[r].nGet > 0 /\ reqs[r].getRes = "none"
    /\ reqs' = [reqs EXCEPT
                  ![r].getRes = IF out = "error" THEN "error" ELSE "ok",
                  ![r].body = IF out = "data"
                              THEN [data |-> Blueprint(DocOf(reqs[r]), store[DocOf(reqs[r])])]
                              ELSE IF out = "nodata" THEN [data |-> Null] ELSE Null]
    /\ UNCHANGED <<conn, rooms, store, inbox, joined, keyIn, keyOut>>

\* ------------------------------------------------------------------ specification
Next ==
    \/ \E c \in Conns : Connect(c)
    \/ \E c \in Conns : Disconnect(c)
    \/ \E c \in Conns, p \in JoinPayloads : JoinRoom(c, p)
    \/ \E c \in Conns, p \in JoinPayloads : LeaveRoom(c, p)
    \/ \E c \in Conns, p \in DrawPayloads, ack \in BOOLEAN : DrawEvent(c, p, ack)
    \/ \E r \in Reqs, out \in PutOutcomes : SpringPut(r, out)
    \/ \E r \in Reqs, out \in GetOutcomes : SpringGet(r, out)
    \/ \E r \in Reqs : JoinAfterFetch(r)
    \/ \E r \in Reqs : DrawAfterPersist(r)
    \/ \E r \in Reqs : DrawAfterFetch(r)

Spec == Init /\ [][Next]_vars

\* ------------------------------------------------------------------ fair runs
\* The events of a run about one document: payloads that are null or name HomeDoc.
HomeJoinPayloads == {NullPayload, [author |-> HomeDoc[1], name |-> HomeDoc[2]]}

HomeDrawPayloads ==
    {NullPayload,
     [author |-> HomeDoc[1], name |-> HomeDoc[2], point |-> Undefined],
     [author |-> HomeDoc[1], name |-> HomeDoc[2], point |-> "p1"]}

NextHome ==
    \/ \E c \in Conns : Connect(c)
    \/ \E c \in Conns : Disconnect(c)
    \/ \E c \in Conns, p \in HomeJoinPayloads : JoinRoom(c, p)
    \/ \E c \in Conns, p \in HomeJoinPayloads : LeaveRoom(c, p)
    \/ \E c \in Conns, p \in HomeDrawPayloads, ack \in BOOLEAN : DrawEvent(c, p, ack)
    \/ \E r \in Reqs, out \in PutOutcomes : SpringPut(r, out)
    \/ \E r \in Reqs, out \in GetOutcomes : SpringGet(r, out)
    \/ \E r \in Reqs : JoinAfterFetch(r)
    \/ \E r \in Reqs : DrawAfterPersist(r)
    \/ \E r \in Reqs : DrawAfterFetch(r)

\* axios answers or gives up after its 5 s timeout, so every call sent is
\* settled; the event loop resumes every handler whose awaited call has settled.
Fairness ==
    \A r \in 1..MaxReqs :
        /\ WF_vars(\E out \in PutOutcomes : SpringPut(r, out))
        /\ WF_vars(\E out \in GetOutcomes : SpringGet(r, out))
        /\ WF_vars(JoinAfterFetch(r))
        /\ WF_vars(DrawAfterPersist(r))
        /\ WF_vars(DrawAfterFetch(r))

SpecFair == Init /\ [][NextHome]_vars /\ Fairness

\* ------------------------------------------------------------------ room-key check
\* roomName applied to two pairs of non-empty strings over Alphabet.
Alphabet == {"a", "-"}

RECURSIVE StrsOfLen(_)
StrsOfLen(n) ==
    IF n = 0 THEN {""} ELSE {s \o ch : s \in StrsOfLen(n - 1), ch \in Alphabet}

Strs == UNION {StrsOfLen(n) : n \in 1..MaxLen}

InitKeys ==
    /\ conn = [c \in Conns |-> "new"]
    /\ joined = [c \in Conns |-> {}]
    /\ rooms = [k \in RoomKeys |-> {}]
    /\ store = [d \in Docs |-> <<>>]
    /\ reqs = <<>>
    /\ inbox = [c \in Conns |-> <<>>]
    /\ keyIn \in (Strs \X Strs) \X (Strs \X Strs)
    /\ keyOut = <<>>

ComputeKeys ==
    /\ keyOut = <<>>
    /\ keyOut' = <<roomName(keyIn[1][1], keyIn[1][2]), roomName(keyIn[2][1], keyIn[2][2])>>
    /\ UNCHANGED <<conn, rooms, store, reqs, inbox, joined, keyIn>>

SpecKeys == InitKeys /\ [][ComputeKeys]_vars

\* ------------------------------------------------------------------ properties
BU == "blueprint-update"

\* How many ev packets of handler r client c has received.
Got(c, ev, r) ==
    Cardinality({i \in DOMAIN inbox[c] : inbox[c][i].ev = ev /\ inbox[c][i].req = r})

Ended(q) == q.pc \in {"done", "failed"}

\* A draw-event payload that lacks author, name or point.
MissingDraw(p) ==
    \/ p = Null
    \/ p.author \in {Undefined, ""}
    \/ p.name \in {Undefined, ""}
    \/ p.point \in {Undefined, ""}

\* The acknowledgment, if supplied, was invoked once, with {ok: false, message}.
RefusedOnce(q) ==
    IF q.ack
    THEN Len(q.acks) = 1 /\ DOMAIN q.acks[1] = {"ok", "message"} /\ ~q.acks[1].ok
    ELSE q.acks = <<>>

RoomOf(q) == rooms[roomName(q.payload.author, q.payload.name)]

\* The stored points of q's document that request r sent.
StoredBy(d, r) == {i \in DOMAIN store[d] : store[d][i].by = r}

\* C1: a draw-event whose appendPoint failed issues no fetchDocument and no
\* blueprint-update is delivered to any connection for it, whatever the other
\* connections' requests do meanwhile.
C1_PersistFailureStops ==
    \A r \in Reqs :
        (reqs[r].kind = "draw" /\ reqs[r].putRes = "error")
            => /\ reqs[r].nGet = 0
               /\ reqs[r].getRes = "none"
               /\ reqs[r].nCast = 0
               /\ \A c \in Conns : Got(c, BU, r) = 0

\* A draw-event whose append failed has ended while its room has a member and the
\* other request of another connection is still suspended.
C1_Witness ==
    \E r, o \in Reqs :
        /\ reqs[r].kind = "draw" /\ reqs[r].putRes = "error" /\ reqs[r].pc = "failed"
        /\ RoomOf(reqs[r]) # {}
        /\ reqs[o].conn # reqs[r].conn /\ ~Ended(reqs[o])

\* A draw-event whose append succeeded and whose fetch returned a document.
Succeeded(q) ==
    /\ q.kind = "draw" /\ Ended(q)
    /\ q.putRes = "ok" /\ q.getRes = "ok" /\ fetchBlueprint(q.body) # Null

\* Every blueprint-update of handler r that c received carries r's fetched document.
SamePayload(c, r) ==
    \A i \in DOMAIN inbox[c] :
        (inbox[c][i].ev = BU /\ inbox[c][i].req = r)
            => inbox[c][i].data = fetchBlueprint(reqs[r].body)

\* C2 as stated: after append and fetch succeeded, one broadcast is made, the
\* originating connection and every other member of the room at broadcast time
\* receive exactly one blueprint-update with the fetched document, and the
\* acknowledgment, if supplied, resolves to {ok: true}.
C2_Original ==
    \A r \in Reqs :
        Succeeded(reqs[r])
            => /\ reqs[r].nCast = 1
               /\ Got(reqs[r].conn, BU, r) = 1
               /\ \A c \in reqs[r].roomAt : Got(c, BU, r) = 1
               /\ \A c \in Conns : SamePayload(c, r)
               /\ reqs[r].ack => Got(reqs[r].conn, "ack", r) = 1

\* C2 amended: after append and fetch succeeded, one broadcast is made; exactly
\* the members of the room at broadcast time receive one blueprint-update each,
\* all with the fetched document (the originating connection only if it is a
\* member then); the acknowledgment, if supplied, is invoked once with {ok: true}
\* and reaches the caller if its connection is still open.
C2_Broadcast ==
    \A r \in Reqs :
        Succeeded(reqs[r])
            => /\ reqs[r].pc = "done"
               /\ reqs[r].nCast = 1
               /\ \A c \in Conns :
                     /\ Got(c, BU, r) = IF c \in reqs[r].roomAt THEN 1 ELSE 0
                     /\ SamePayload(c, r)
               /\ reqs[r].acks = IF reqs[r].ack THEN <<OkTrue>> ELSE <<>>
               /\ Got(reqs[r].conn, "ack", r) =
                     IF reqs[r].ack /\ reqs[r].live THEN 1 ELSE 0

\* A draw-event with acknowledgment has succeeded while its sender and the other
\* client were both in the room.
C2_Witness ==
    \E r \in Reqs :
        /\ Succeeded(reqs[r]) /\ reqs[r].ack
        /\ reqs[r].roomAt = Conns
        /\ \A c \in Conns : Got(c, BU, r) = 1

\* The blueprint-updates c has received, oldest first.
Updates(c) == SelectSeq(inbox[c], LAMBDA m : m.ev = BU)

\* C3: when every request is a draw-event on one blueprint and all of them have
\* succeeded, each member of the room holds, as its last blueprint-update, the
\* document the persistence service stores.
C3_MostRecent ==
    (/\ Reqs # {}
     /\ \A r \in Reqs : Succeeded(reqs[r]) /\ reqs[r].pc = "done"
     /\ \A r, o \in Reqs : DocOf(reqs[r]) = DocOf(reqs[o]))
        => \A r \in Reqs : \A c \in RoomOf(reqs[r]) :
              /\ Updates(c) # <<>>
              /\ Updates(c)[Len(Updates(c))].data
                    = Blueprint(DocOf(reqs[r]), store[DocOf(reqs[r])])

\* C4: roomName gives two pairs of non-empty strings the same room only if the
\* pairs are the same.
C4_KeyInjective ==
    keyOut # <<>> => (keyOut[1] = keyOut[2] => keyIn[1] = keyIn[2])

\* C5: a connection is in the room of (author, name) exactly when it has issued
\* a valid join-room for (author, name) and has not since left it or disconnected.
C5_Membership ==
    \A c \in Conns : \A d \in Docs :
        c \in rooms[roomName(d[1], d[2])] <=> d \in joined[c]

\* A draw-event whose append succeeded and whose fetch failed or found nothing.
Unrefreshed(q) ==
    /\ q.kind = "draw" /\ Ended(q)
    /\ q.putRes = "ok" /\ q.getRes # "none"
    /\ (q.getRes = "error" \/ fetchBlueprint(q.body) = Null)

C7_InvalidDraw ==
    \A r \in Reqs :
        (reqs[r].kind = "draw" /\ MissingDraw(reqs[r].payload))
            => LET q == reqs[r] IN
               /\ q.pc = "failed"
               /\ RefusedOnce(q)
               /\ Got(q.conn, "ack", r) = IF q.ack THEN 1 ELSE 0
               /\ Got(q.conn, "error", r) = 1
               /\ q.nPut = 0 /\ q.nGet = 0
               /\ q.putRes = "none" /\ q.getRes = "none"
               /\ \A d \in Docs : StoredBy(d, r) = {}
               /\ \A c \in Conns : Got(c, BU, r) = 0

\* A draw-event with author and name but no point, with an acknowledgment, sent
\* by a member of the named room.
C7_Witness ==
    \E r \in Reqs :
        /\ reqs[r].kind = "draw" /\ reqs[r].ack
        /\ reqs[r].payload # Null
        /\ reqs[r].payload.point = Undefined
        /\ DocOf(reqs[r]) = HomeDoc
        /\ reqs[r].conn \in rooms[roomName(HomeDoc[1], HomeDoc[2])]
        /\ Got(reqs[r].conn, "error", r) = 1

\* C8: a disconnected connection is in no room, and no broadcast made after the
\* disconnect is addressed or delivered to it, also when the mutation was in
\* flight at the disconnect.
C8_Disconnected ==
    /\ \A c \in Closed : \A k \in RoomKeys : c \notin rooms[k]
    /\ \A r \in Reqs :
          /\ reqs[r].roomAt \cap reqs[r].closedAt = {}
          /\ \A c \in reqs[r].closedAt : Got(c, BU, r) = 0

\* A client received one broadcast of its room, sent a draw-event to it,
\* disconnected while that was in flight, and the broadcast then went to the
\* remaining member only.
C8_Witness ==
    \E r, o \in Reqs : \E c \in Closed :
        /\ r # o /\ DocOf(reqs[r]) = DocOf(reqs[o])
        /\ Got(c, BU, o) = 1
        /\ reqs[r].conn = c /\ reqs[r].nCast = 1 /\ c \in reqs[r].closedAt
        /\ reqs[r].roomAt # {}
        /\ Got(c, BU, r) = 0

\* A join-room with author and name whose fetch failed, once its handler ended.
JoinUnfetched(q) ==
    /\ q.kind = "join" /\ q.pc = "done" /\ q.getRes = "error"

\* The step in which join-room handler r deals with its failed fetch.
JoinFailureStep(r) ==
    /\ r \in Reqs
    /\ reqs[r].kind = "join" /\ reqs[r].pc = "get" /\ reqs[r].getRes = "error"
    /\ reqs'[r].pc = "done"

\* C9 as stated: when the fetch of a valid join-room failed, the joining
\* connection receives a warning, nobody else does, no error and no
\* blueprint-update is sent for the join, and the failure leaves the connection
\* in the room.
C9_Original ==
    /\ [](\A r \in Reqs :
            JoinUnfetched(reqs[r])
                => /\ Got(reqs[r].conn, "warning", r) = 1
                   /\ \A c \in Conns \ {reqs[r].conn} : Got(c, "warning", r) = 0
                   /\ \A c \in Conns : Got(c, "error", r) = 0 /\ Got(c, BU, r) = 0)
    /\ [][\A r \in Reqs : JoinFailureStep(r) => rooms' = rooms]_vars

\* C9 amended: when the fetch of a valid join-room failed, handling the failure
\* changes no room (the join is kept), one warning is emitted to the joining
\* connection only, which receives it exactly when its connection is still open
\* at that moment, and no error and no blueprint-update is sent for the join.
C9_JoinFetchFailure ==
    /\ [](\A r \in Reqs :
            JoinUnfetched(reqs[r])
                => /\ Got(reqs[r].conn, "warning", r) = IF reqs[r].live THEN 1 ELSE 0
                   /\ \A c \in Conns \ {reqs[r].conn} : Got(c, "warning", r) = 0
                   /\ \A c \in Conns : Got(c, "error", r) = 0 /\ Got(c, BU, r) = 0)
    /\ [][\A r \in Reqs : JoinFailureStep(r) => rooms' = rooms]_vars

\* A client whose join-room fetch failed got the warning, stayed in the room and
\* then received the broadcast of another client's draw-event.
C9_Witness ==
    \E r, o \in Reqs :
        /\ JoinUnfetched(reqs[r]) /\ reqs[r].live
        /\ Got(reqs[r].conn, "warning", r) = 1
        /\ reqs[o].kind = "draw" /\ reqs[o].conn # reqs[r].conn
        /\ reqs[r].conn \in reqs[o].roomAt
        /\ Got(reqs[r].conn, BU, o) = 1
        /\ reqs[r].conn \in RoomOf(reqs[r])

\* Two draw-events of different connections on one document whose appends both
\* succeeded.
BothAppended(r, o) ==
    /\ r # o
    /\ reqs[r].kind = "draw" /\ reqs[o].kind = "draw"
    /\ reqs[r].putRes = "ok" /\ reqs[o].putRes = "ok"
    /\ reqs[r].conn # reqs[o].conn
    /\ DocOf(reqs[r]) = DocOf(reqs[o])

\* r's point was stored before o's.
StoredBefore(d, r, o) ==
    \E i \in StoredBy(d, r) : \E j \in StoredBy(d, o) : i < j

\* The requests whose points a fetched document holds.
SendersIn(bp) == {bp.points[i].by : i \in DOMAIN bp.points}

\* C10: of two concurrent draw-events on one document whose appends both
\* succeeded, the stored document holds both points, and the fetch of the one
\* whose append came later returns a document with both points.
C10_NoLostUpdate ==
    \A r, o \in Reqs :
        BothAppended(r, o)
            => LET d == DocOf(reqs[r]) IN
               /\ Cardinality(StoredBy(d, r)) = 1
               /\ Cardinality(StoredBy(d, o)) = 1
               /\ (/\ StoredBefore(d, r, o)
                   /\ reqs[o].getRes = "ok"
                   /\ fetchBlueprint(reqs[o].body) # Null)
                      => {r, o} \subseteq SendersIn(fetchBlueprint(reqs[o].body))

\* The draw-event that arrived second was stored first, and the fetch of the
\* first one returned both points.
C10_Witness ==
    \E r, o \in Reqs :
        /\ BothAppended(r, o) /\ o < r
        /\ StoredBefore(DocOf(reqs[r]), r, o)
        /\ reqs[o].getRes = "ok" /\ fetchBlueprint(reqs[o].body) # Null
        /\ {r, o} \subseteq SendersIn(fetchBlueprint(reqs[o].body))

\* The moves of a draw-event handler: Persisting ("put"), Fetching ("get"), then
\* the broadcast and Done in one synchronous stretch, or Failed.
DrawPath ==
    {<<"put", "get">>, <<"put", "failed">>, <<"get", "done">>, <<"get", "failed">>}

\* What handler r does in one step: nothing, or one move of DrawPath; it
\* broadcasts exactly in the move to Done and acknowledges only as it ends.
DrawMoves(r) ==
    LET q == reqs[r]
        n == reqs'[r] IN
    \/ n.pc = q.pc /\ n.nCast = q.nCast /\ n.acks = q.acks
    \/ /\ <<q.pc, n.pc>> \in DrawPath
       /\ n.nCast = IF n.pc = "done" THEN 1 ELSE 0
       /\ Ended(n) \/ n.acks = <<>>

\* A draw-event enters at validation: it fails there or goes on to persist.
DrawEnters(r) ==
    LET n == reqs'[r] IN
    /\ n.pc = IF MissingDraw(n.payload) THEN "failed" ELSE "put"
    /\ n.nCast = 0

DrawSteps ==
    /\ \A r \in Reqs : reqs[r].kind = "draw" => DrawMoves(r)
    /\ \A r \in (1..Len(reqs')) \ Reqs : reqs'[r].kind = "draw" => DrawEnters(r)

\* A failed draw-event never broadcast and acknowledged {ok: false} once.
FailedQuietly(r) ==
    /\ reqs[r].nCast = 0
    /\ \A c \in Conns : Got(c, BU, r) = 0
    /\ RefusedOnce(reqs[r])

\* The error and warning events of handler r that its caller received.
Reports(r) == Got(reqs[r].conn, "error", r) + Got(reqs[r].conn, "warning", r)

\* Every draw-event accepted ends.
DrawEnds ==
    \A r \in 1..MaxReqs :
        (r \in Reqs /\ reqs[r].kind = "draw") ~> (r \in Reqs /\ Ended(reqs[r]))

DrawsOn(d) == {r \in Reqs : reqs[r].kind = "draw" /\ DocOf(reqs[r]) = d}

\* C12: no external call is retried: a draw-event calls appendPoint at most once
\* and fetchDocument at most once, a join-room calls fetchDocument at most once
\* and appendPoint never, and the stored document grows by at most one point per
\* draw-event on it, whatever fails.
C12_NoRetry ==
    /\ \A r \in Reqs :
          LET q == reqs[r] IN
          /\ q.nPut <= 1 /\ q.nGet <= 1
          /\ q.kind = "join" => q.nPut = 0 /\ q.putRes = "none"
          /\ \A d \in Docs :
                Cardinality(StoredBy(d, r))
                    <= IF q.kind = "draw" /\ d = DocOf(q) THEN 1 ELSE 0
    /\ \A d \in Docs : Len(store[d]) <= Cardinality(DrawsOn(d))

\* A draw-event whose PUT was stored but answered too late has failed with its
\* point stored once, and a join-room has fetched and ended.
C12_Witness ==
    \E r, o \in Reqs :
        /\ reqs[r].kind = "draw" /\ reqs[r].pc = "failed" /\ reqs[r].putRes = "error"
        /\ Cardinality(StoredBy(DocOf(reqs[r]), r)) = 1
        /\ reqs[o].kind = "join" /\ reqs[o].pc = "done" /\ reqs[o].nGet = 1

\* This step accepts a join-room of c for identity d with author and name.
JoinStep(c, d) ==
    /\ Len(reqs') = Len(reqs) + 1
    /\ LET n == reqs'[Len(reqs')] IN
       n.kind = "join" /\ n.pc = "get" /\ n.conn = c /\ DocOf(n) = d

\* This step is a leave-room of c for identity d, which c had joined.
LeaveStep(c, d) ==
    /\ d \in joined[c] /\ joined'[c] = joined[c] \ {d}
    /\ conn' = conn

\* C13: room membership is a set: joining a room again changes no room, a
\* connection that joined again receives each broadcast to the room exactly
\* once, and one leave-room takes it out of the room however often it joined.
C13_SetSemantics ==
    /\ [](\A r, o \in Reqs :
            (/\ reqs[r].kind = "join" /\ reqs[r].conn \in reqs[r].roomAt
             /\ reqs[o].kind = "draw" /\ reqs[o].nCast = 1)
                => Got(reqs[r].conn, BU, o)
                      = IF reqs[r].conn \in reqs[o].roomAt THEN 1 ELSE 0)
    /\ [][\A c \in Conns : \A d \in Docs :
            /\ (JoinStep(c, d) /\ c \in rooms[roomName(d[1], d[2])]) => rooms' = rooms
            /\ JoinStep(c, d) => c \in rooms'[roomName(d[1], d[2])]
            /\ LeaveStep(c, d) => c \notin rooms'[roomName(d[1], d[2])]]_vars

\* A member of a room joined it again, then received the one broadcast of a
\* draw-event to the room once, and then left the room with one leave-room.
C13_Witness ==
    \E r, o \in Reqs :
        LET c == reqs[r].conn IN
        /\ r < o
        /\ reqs[r].kind = "join" /\ c \in reqs[r].roomAt
        /\ reqs[o].kind = "draw" /\ reqs[o].nCast = 1 /\ c \in reqs[o].roomAt
        /\ DocOf(reqs[o]) = DocOf(reqs[r])
        /\ Got(c, BU, o) = 1
        /\ conn[c] = "connected" /\ c \notin RoomOf(reqs[r])

\* A join-room with author and name whose fetch was answered, once it ended.
JoinAnswered(q) == q.kind = "join" /\ q.pc = "done" /\ q.getRes = "ok"

\* The answer of q's fetch holds a document.
Present(q) == q.body # Null /\ q.body.data # Null

\* The packets of handler r, of any event, that c has received.
GotAny(c, r) == Cardinality({i \in DOMAIN inbox[c] : inbox[c][i].req = r})

\* Every packet of handler r that c received carries the document r fetched.
InitialState(c, r) ==
    \A i \in DOMAIN inbox[c] : inbox[c][i].req = r => inbox[c][i].data = reqs[r].body.data

\* C14 as stated: a join-room delivers to the joining connection only: when the
\* fetch returns a document, the joining connection receives one
\* blueprint-update with it and nobody else receives anything; when it returns
\* absent, the joining connection receives nothing from that join.
C14_Original ==
    \A r \in Reqs :
        JoinAnswered(reqs[r])
            => LET q == reqs[r] IN
               /\ \A c \in Conns \ {q.conn} : GotAny(c, r) = 0
               /\ IF Present(q)
                  THEN /\ Got(q.conn, BU, r) = 1
                       /\ GotAny(q.conn, r) = 1
                       /\ InitialState(q.conn, r)
                  ELSE GotAny(q.conn, r) = 0

\* C14 amended: a join-room addresses the joining connection only: when the
\* fetch returns a document, one blueprint-update with it is emitted to the
\* joining connection, which receives it exactly when its connection is still
\* open at that moment, and nobody else receives anything; when it returns
\* absent, nobody receives anything from that join.
C14_JoinInitialState ==
    \A r \in Reqs :
        JoinAnswered(reqs[r])
            => LET q == reqs[r] IN
               /\ \A c \in Conns \ {q.conn} : GotAny(c, r) = 0
               /\ IF Present(q)
                  THEN /\ Got(q.conn, BU, r) = IF q.live THEN 1 ELSE 0
                       /\ GotAny(q.conn, r) = Got(q.conn, BU, r)
                       /\ InitialState(q.conn, r)
                  ELSE GotAny(q.conn, r) = 0

\* One join-room into a room with another member got its document, and one
\* join-room found no document.
C14_Witness ==
    \E r, o \in Reqs :
        /\ JoinAnswered(reqs[r]) /\ Present(reqs[r]) /\ reqs[r].live
        /\ Got(reqs[r].conn, BU, r) = 1
        /\ RoomOf(reqs[r]) = Conns
        /\ JoinAnswered(reqs[o]) /\ ~Present(reqs[o])

\* Handler q waits for the answer of its PUT or GET.
Suspended(q) ==
    \/ q.pc = "put" /\ q.putRes = "none"
    \/ q.pc = "get" /\ q.getRes = "none"

\* Every event of connection c is accepted now (a join-room or draw-event as long
\* as the run takes another request) and its handler runs its first stretch.
Accepts(c) ==
    /\ ENABLED Disconnect(c)
    /\ \A p \in JoinPayloads : ENABLED LeaveRoom(c, p)
    /\ Len(reqs) < MaxReqs
          => /\ \A p \in JoinPayloads : ENABLED JoinRoom(c, p)
             /\ \A p \in DrawPayloads : \A ack \in BOOLEAN : ENABLED DrawEvent(c, p, ack)

\* Handler o, whose awaited call has been answered, can run its next stretch.
Resumes(o) ==
    LET q == reqs[o] IN
    /\ (q.kind = "draw" /\ q.pc = "put" /\ q.putRes # "none") => ENABLED DrawAfterPersist(o)
    /\ (q.kind = "draw" /\ q.pc = "get" /\ q.getRes # "none") => ENABLED DrawAfterFetch(o)
    /\ (q.kind = "join" /\ q.pc = "get" /\ q.getRes # "none") => ENABLED JoinAfterFetch(o)

\* C15: while a draw-event of one connection is suspended in appendPoint or
\* fetchDocument, every other open connection's join-room, leave-room,
\* draw-event and disconnect is accepted and runs to its next suspension point
\* or its end, and every handler of another connection whose call was answered
\* resumes.
C15_NonBlocking ==
    \A r \in Reqs :
        (reqs[r].kind = "draw" /\ Suspended(reqs[r]))
            => /\ \A c \in Conns \ {reqs[r].conn} : conn[c] = "connected" => Accepts(c)
               /\ \A o \in Reqs : reqs[o].conn # reqs[r].conn => Resumes(o)

\* A draw-event waits for its GET while another connection, a member of the
\* same room, is open and the run takes another request.
C15_Witness ==
    \E r \in Reqs : \E c \in Conns \ {reqs[r].conn} :
        /\ reqs[r].kind = "draw" /\ reqs[r].pc = "get" /\ reqs[r].getRes = "none"
        /\ conn[c] = "connected" /\ c \in RoomOf(reqs[r])
        /\ Len(reqs) < MaxReqs
        /\ Accepts(c)

\* Request q has ended in a failure: of validation, of appendPoint, of
\* fetchDocument, or with no document found.
FailureEnded(q) ==
    \/ q.pc = "failed"
    \/ q.kind = "join" /\ q.pc = "done" /\ q.getRes = "error"

\* In this step request r ends in a failure.
FailureStep(r) ==
    /\ FailureEnded(reqs'[r])
    /\ r \in Reqs => ~Ended(reqs[r])

\* The step touches nothing but request r and the inbox of r's caller.
OwnEffectOnly(r) ==
    /\ rooms' = rooms /\ joined' = joined /\ store' = store /\ conn' = conn
    /\ \A o \in Reqs \ {r} : reqs'[o] = reqs[o]
    /\ \A c \in Conns \ {reqs'[r].conn} : inbox'[c] = inbox[c]

\* How request q ended follows from its own payload and the answers to its own
\* calls.
OwnOutcome(q) ==
    IF q.kind = "join"
    THEN q.pc = "failed" <=> ~ValidJoin(q.payload)
    ELSE q.pc = "done" <=> /\ ValidDraw(q.payload)
                           /\ q.putRes = "ok" /\ q.getRes = "ok" /\ Present(q)

\* C16: a failure stays with the request that caused it: the step in which a
\* join-room or draw-event ends in a validation, persistence, retrieval or
\* not-found failure changes no room, no stored document, no other request and
\* no other connection's inbox; nobody but its caller ever receives a packet of
\* the failed request; and how any request ends follows from its own payload and
\* the answers to its own calls, whatever failed beside or before it.
C16_FailureIsolation ==
    /\ [](\A r \in Reqs :
            /\ FailureEnded(reqs[r])
                  => \A c \in Conns \ {reqs[r].conn} : GotAny(c, r) = 0
            /\ Ended(reqs[r]) => OwnOutcome(reqs[r]))
    /\ [][\A r \in 1..Len(reqs') : FailureStep(r) => OwnEffectOnly(r)]_vars

\* A draw-event found no document and told its caller; the later draw-event of
\* the other member of the room succeeded and reached both members.
C16_Witness ==
    \E r, o \in Reqs :
        /\ r < o /\ reqs[r].conn # reqs[o].conn
        /\ reqs[r].kind = "draw" /\ reqs[r].pc = "failed"
        /\ reqs[r].getRes = "ok" /\ ~Present(reqs[r])
        /\ Reports(r) = 1
        /\ DocOf(reqs[o]) = DocOf(reqs[r])
        /\ reqs[o].kind = "draw" /\ reqs[o].pc = "done" /\ reqs[o].roomAt = Conns
        /\ GotAny(reqs[o].conn, r) = 0

\* Draw-event r goes on: the backend can answer its pending call in every way,
\* and its handler can resume once the call is answered.
GoesOn(r) ==
    LET q == reqs[r] IN
    /\ (q.pc = "put" /\ q.putRes = "none") => \A out \in PutOutcomes : ENABLED SpringPut(r, out)
    /\ (q.pc = "put" /\ q.putRes # "none") => ENABLED DrawAfterPersist(r)
    /\ (q.pc = "get" /\ q.getRes = "none") => \A out \in GetOutcomes : ENABLED SpringGet(r, out)
    /\ (q.pc = "get" /\ q.getRes # "none") => ENABLED DrawAfterFetch(r)

\* C17: a draw-event whose caller disconnected while it was suspended is not
\* aborted: its calls are still answered and its handler resumes, a PUT answered
\* with success has stored the point once, and when the fetch returned a
\* document the broadcast is made, every member the room has then receives the
\* blueprint-update once and the disconnected caller receives nothing.
C17_DisconnectMidDraw ==
    \A r \in Reqs :
        LET q == reqs[r] IN
        (q.kind = "draw" /\ ValidDraw(q.payload))
            => /\ (conn[q.conn] = "closed" /\ ~Ended(q)) => GoesOn(r)
               /\ (conn[q.conn] = "closed" /\ q.putRes = "ok")
                     => Cardinality(StoredBy(DocOf(q), r)) = 1
               /\ (Succeeded(q) /\ ~q.live)
                     => /\ q.pc = "done" /\ q.nCast = 1
                        /\ q.conn \notin q.roomAt
                        /\ \A c \in Conns : Got(c, BU, r) = IF c \in q.roomAt THEN 1 ELSE 0
                        /\ GotAny(q.conn, r) = 0

\* The caller of a draw-event with acknowledgment disconnected while it was
\* suspended; the point was stored and the other member of the room received
\* the broadcast.
C17_Witness ==
    \E r \in Reqs : \E c \in Conns \ {reqs[r].conn} :
        /\ Succeeded(reqs[r]) /\ ~reqs[r].live /\ reqs[r].ack
        /\ Cardinality(StoredBy(DocOf(reqs[r]), r)) = 1
        /\ reqs[r].roomAt = {c}
        /\ Got(c, BU, r) = 1
        /\ GotAny(reqs[r].conn, r) = 0

\* A join-room payload that lacks author or name.
MissingJoin(p) ==
    \/ p = Null
    \/ p.author \in {Undefined, ""}
    \/ p.name \in {Undefined, ""}

\* This step accepts a join-room of c that lacks author or name.
BadJoinStep(c) ==
    /\ Len(reqs') = Len(reqs) + 1
    /\ LET n == reqs'[Len(reqs')] IN
       n.kind = "join" /\ n.conn = c /\ MissingJoin(n.payload)

\* C18: a join-room that lacks author or name (absent or empty) is answered with
\* one error event to its caller and nothing else, changes no room membership
\* and issues no fetchDocument (and no appendPoint).
C18_InvalidJoin ==
    /\ [](\A r \in Reqs :
            (reqs[r].kind = "join" /\ MissingJoin(reqs[r].payload))
                => LET q == reqs[r] IN
                   /\ q.pc = "failed"
                   /\ Got(q.conn, "error", r) = 1 /\ GotAny(q.conn, r) = 1
                   /\ \A c \in Conns \ {q.conn} : GotAny(c, r) = 0
                   /\ q.nGet = 0 /\ q.getRes = "none"
                   /\ q.nPut = 0 /\ q.putRes = "none")
    /\ [][\A c \in Conns : BadJoinStep(c) => rooms' = rooms /\ joined' = joined]_vars

\* A member of HomeDoc's room sent a join-room with an author and an empty name,
\* got the error and is still in its room and in no other.
C18_Witness ==
    \E r \in Reqs :
        LET q == reqs[r] IN
        /\ q.kind = "join" /\ q.payload # Null /\ q.payload.name = ""
        /\ Got(q.conn, "error", r) = 1
        /\ \A k \in RoomKeys : q.conn \in rooms[k] <=> k = roomName(HomeDoc[1], HomeDoc[2])

\* In c's inbox the {ok: true} of handler r comes after every other packet of r.
OkTrueLast(c, r) ==
    \A i, j \in DOMAIN inbox[c] :
        (/\ inbox[c][i].req = r /\ inbox[c][i].ev = "ack" /\ inbox[c][i].data = OkTrue
         /\ inbox[c][j].req = r)
            => j <= i

\* This step invokes the acknowledgment of handler r.
AckStep(r) == reqs'[r].acks # (IF r \in Reqs THEN reqs[r].acks ELSE <<>>)

\* C19: within one draw-event the acknowledgment is invoked at most once, and
\* only as the handler ends; {ok: true} is sent only when appendPoint succeeded,
\* fetchDocument returned a document and the broadcast was made, and it reaches
\* the caller after the blueprint-update of the same request.
C19_AckLast ==
    /\ [](\A r \in Reqs :
            LET q == reqs[r] IN
            /\ Len(q.acks) <= IF q.kind = "draw" /\ q.ack THEN 1 ELSE 0
            /\ Got(q.conn, "ack", r) <= Len(q.acks)
            /\ \A c \in Conns \ {q.conn} : Got(c, "ack", r) = 0
            /\ q.acks # <<>> => Ended(q)
            /\ q.acks = <<OkTrue>>
                  => /\ q.pc = "done" /\ q.nCast = 1
                     /\ q.putRes = "ok" /\ q.getRes = "ok" /\ Present(q)
            /\ OkTrueLast(q.conn, r))
    /\ [][\A r \in 1..Len(reqs') :
            AckStep(r) => Ended(reqs'[r]) /\ (r \in Reqs => ~Ended(reqs[r]))]_vars

\* A member of the room got the blueprint-update of its draw-event and then its
\* {ok: true}, and another draw-event with acknowledgment was refused once.
C19_Witness ==
    \E r, o \in Reqs :
        LET c == reqs[r].conn IN
        /\ reqs[r].kind = "draw" /\ reqs[r].acks = <<OkTrue>>
        /\ c \in reqs[r].roomAt
        /\ Got(c, BU, r) = 1 /\ Got(c, "ack", r) = 1
        /\ reqs[o].kind = "draw" /\ reqs[o].ack /\ reqs[o].pc = "failed"
        /\ Len(reqs[o].acks) = 1

\* The packets c receives in this step.
Arrivals(c) == {inbox'[c][i] : i \in (Len(inbox[c]) + 1)..Len(inbox'[c])}

\* C20: a blueprint-update of a draw-event on (author, name) is delivered only
\* to connections that have joined that (author, name) and have not since left
\* it or disconnected.
C20_Confined ==
    [][\A c \in Conns : \A m \in Arrivals(c) :
          (m.ev = BU /\ reqs[m.req].kind = "draw")
              => DocOf(reqs[m.req]) \in joined[c]]_vars

====
